---- MODULE Spec2Model ----
(***************************************************************************)
(* The hierarchical process state store of robo.js                         *)
(* (packages/robo/src/core/state.ts): the Global State Table `state`, the  *)
(* State forks and their registry, the fire-and-forget persistence of a    *)
(* key into Flashcore, the sanitizer removeInstances, and the              *)
(* getStateSave / saveState / loadState exchange between the supervising   *)
(* process and the bot process.                                            *)
(*                                                                         *)
(* Strings are sequences of one-character strings, so that the template    *)
(* literal `${prefix}__${key}` is a real concatenation.                    *)
(***************************************************************************)
EXTENDS Integers, Sequences, FiniteSets, TLC

(***************************************************************************)
(* Bounds of the model.                                                    *)
(***************************************************************************)
MaxForks == 2       \* State instances held at once, store specification
MaxKeys == 2        \* entries of the Global State Table
MaxPathForks == 3   \* State instances held at once, fork specification
MaxTasks == 2       \* persistState() calls in flight
MaxOptionTasks == 1 \* persistState() calls in flight, option specification
MaxOptionKeys == 1  \* entries of the table, option specification
MaxOptionForks == 1 \* State instances held at once, option specification
MaxSaves == 2       \* getStateSave calls made
MaxQueue == 2       \* messages of the bot process not yet delivered
MaxTreeForks == 3   \* State instances held at once, tree specification
MaxTreeKeys == 1    \* entries of the table, tree specification
MaxDurableKeys == 2 \* entries of the table, durable specification
MaxDurableTasks == 1 \* persistState() calls in flight, durable specification
MaxNodes == 4       \* values in a tree given to removeInstances

(***************************************************************************)
(* Strings                                                                 *)
(***************************************************************************)
\* The strings a caller passes as a prefix or as a key. No format is
\* validated, so the empty string and "_" are keys like any other.
Strings == {<<>>, <<"a">>, <<"_">>}

\* The prefixes of the fork specification: a caller may also pass a prefix
\* that holds the separator, such as "a__a".
PathStrings == Strings \cup {<<"a", "_", "_", "a">>}

\* The "__" of the template literals `${this._prefix}__${...}`.
Separator == <<"_", "_">>

(***************************************************************************)
(* Values                                                                  *)
(* A value is a tuple whose first element is its runtime kind.             *)
(***************************************************************************)
Undefined == <<"undefined">>
Null == <<"null">>
Num(n) == <<"number", n>>
Str(s) == <<"string", s>>
Bool(b) == <<"boolean", b>>
Func == <<"function">>
Instance == <<"instance">>                \* an object built by a class
NoConstructor == <<"bare">>             \* an object whose constructor is undefined
Arr(items) == <<"array", items>>
Obj(fields) == <<"object", fields>>     \* fields: <<name, value>> in order

\* A call that does not return: the TypeError of reading a property of
\* undefined.
TypeError == <<"TypeError">>

Kind(value) == value[1]

\* The constructor names removeInstances keeps.
builtInTypes == {"String", "Number", "Boolean", "Array", "Object"}

\* value.constructor.name of an object that has a constructor
ConstructorName(value) ==
    CASE Kind(value) = "array" -> "Array"
      [] Kind(value) = "object" -> "Object"
      [] OTHER -> "Instance"

RECURSIVE removeInstances(_)
RECURSIVE removeInstances_items(_)
RECURSIVE removeInstances_items_unfiltered(_)
RECURSIVE removeInstances_fields(_)

\* An array result that keeps the elements the filter drops.
removeInstances_items_unfiltered(items) ==
    IF items = <<>> THEN Arr(<<>>)
    ELSE LET item == removeInstances(Head(items))
             rest == removeInstances_items_unfiltered(Tail(items))
         IN  IF Kind(item) = "TypeError" \/ Kind(rest) = "TypeError"
             THEN TypeError
             ELSE Arr(<<item>> \o rest[2])

\* value.map((item) => removeInstances(item)).filter((item) => item !== undefined)
\* A call that throws ends the map.
removeInstances_items(items) ==
    IF items = <<>> THEN Arr(<<>>)
    ELSE LET item == removeInstances(Head(items))
             rest == removeInstances_items(Tail(items))
         IN  IF Kind(item) = "TypeError" \/ Kind(rest) = "TypeError"
             THEN TypeError
             ELSE IF Kind(item) = "undefined" THEN rest
             ELSE Arr(<<item>> \o rest[2])

\* for (const key in value): keep the fields whose processed value is
\* defined. A call that throws ends the loop.
removeInstances_fields(fields) ==
    IF fields = <<>> THEN Obj(<<>>)
    ELSE LET processedValue == removeInstances(Head(fields)[2])
             rest == removeInstances_fields(Tail(fields))
         IN  IF Kind(processedValue) = "TypeError" \/ Kind(rest) = "TypeError"
             THEN TypeError
             ELSE IF Kind(processedValue) = "undefined" THEN rest
             ELSE Obj(<<<<Head(fields)[1], processedValue>>>> \o rest[2])

\* removeInstances(value): the value returned, or TypeError when
\* value.constructor is undefined and reading its name throws.
removeInstances(value) ==
    IF Kind(value) = "function" THEN Undefined
    ELSE IF Kind(value) \in {"instance", "bare", "array", "object"}
    THEN IF Kind(value) = "bare" THEN TypeError
         ELSE IF ConstructorName(value) \notin builtInTypes THEN Undefined
         ELSE IF Kind(value) = "array"
         THEN removeInstances_items(value[2])
         ELSE removeInstances_fields(value[2])
    ELSE value

\* StateOptions.persist / SetStateOptions.persist: true, false or not given.
PersistOptions == {"undefined", "true", "false"}

\* The options of a fork that persists nothing by default.
NoPersist == {"undefined", "false"}

\* a ?? b on a persist option
Nullish(a, b) == IF a = "undefined" THEN b ELSE a

\* The truthiness tested by `if (persist)`.
Truthy(p) == p = "true"

VARIABLES
    state,          \* the Global State Table: full key -> value
    prefixes,       \* State._prefixes, in insertion order
    forks,          \* the State instances created so far
    flashcore,      \* the mapping stored under FLASHCORE_KEYS.state
    tasks,          \* the persistState() calls in flight
    saves,          \* the promises returned by getStateSave
    messageListeners, \* save ids listening for 'message' on the bot process
    errorListeners, \* save ids listening once for 'error' on the bot process
    toBot,          \* messages sent to the bot process
    fromBot,        \* messages sent by the bot process, not yet delivered
    argument,       \* the value a caller hands to removeInstances
    returned        \* what that call of removeInstances came to

vars == <<state, prefixes, forks, flashcore, tasks, saves,
          messageListeners, errorListeners, toBot, fromBot,
          argument, returned>>

tableVars == <<state, prefixes, forks>>
flashVars == <<flashcore, tasks>>
syncVars == <<saves, messageListeners, errorListeners, toBot, fromBot>>
callVars == <<argument, returned>>

(***************************************************************************)
(* Mappings (Record<string, unknown>)                                      *)
(***************************************************************************)
EmptyMapping == [k \in {} |-> Undefined]

\* obj[key], undefined when the key is missing
Lookup(obj, key) == IF key \in DOMAIN obj THEN obj[key] ELSE Undefined

\* obj[key] = value
Assign(obj, key, value) ==
    [k \in DOMAIN obj \cup {key} |-> IF k = key THEN value ELSE obj[k]]

(***************************************************************************)
(* class State                                                             *)
(***************************************************************************)
\* new State(prefix, options); path records the local prefixes the instance
\* was reached by (State.fork's prefix, then each nested fork's prefix).
NewState(prefix, options, path) ==
    [prefix |-> prefix, options |-> options, path |-> path]

\* A registry that records every call.
SetAdd_append(seq, x) == Append(seq, x)

\* State._prefixes.add(prefix): a Set keeps insertion order, once per value.
SetAdd(seq, x) ==
    IF \E i \in 1..Len(seq) : seq[i] = x THEN seq ELSE Append(seq, x)

\* static fork(prefix, options): the instance returned
State_fork(prefix, options) == NewState(prefix, options, <<prefix>>)

\* A nested fork that forgets the separator.
fork_noSeparator(this, prefix, options) ==
    NewState(this.prefix \o prefix, options, Append(this.path, prefix))

\* fork(prefix, options) on an instance: the instance returned
fork(this, prefix, options) ==
    NewState(this.prefix \o Separator \o prefix, options,
             Append(this.path, prefix))

\* static listForks()
State_listForks == prefixes

\* getState(key) of the module
getState(key) == Lookup(state, key)

\* A getState that forgets the separator.
State_getState_noSeparator(this, key) == getState(this.prefix \o key)

\* getState(key) on an instance
State_getState(this, key) == getState(this.prefix \o Separator \o key)

\* A persist option resolved with || where the code has ??.
State_setState_persist_or(this, options) ==
    IF options = "true" THEN options ELSE this.options

\* A setState that forgets the instance's prefix.
State_setState_key_noPrefix(this, key) == Separator \o key

\* The key and the options an instance's setState passes to the module's
\* setState.
State_setState_key(this, key) == this.prefix \o Separator \o key

State_setState_persist(this, options) == Nullish(options, this.options)

\* A persistState() call in flight: Flashcore.get is pending ("get"), or it
\* returned persistedState and Flashcore.set is pending ("set").
NewTask(key, value) ==
    [key |-> key, value |-> value, pc |-> "get", persistedState |-> EmptyMapping]

\* setState(key, value, {persist}) of the module: the table and the tasks
\* afterwards
setState_state(key, value) == Assign(state, key, value)

setState_tasks(key, value, persist) ==
    IF Truthy(persist) THEN Append(tasks, NewTask(key, value)) ELSE tasks

(***************************************************************************)
(* Inputs                                                                  *)
(***************************************************************************)
\* The values application code stores through the store specification.
Values == {Num(1), Func}

\* The snapshots handed to loadState: empty, one entry, two entries.
Snapshots ==
    {EmptyMapping,
     Assign(EmptyMapping, <<"a", "_", "_", "a">>, Num(2)),
     Assign(Assign(EmptyMapping, <<"a", "_", "_", "a">>, Num(2)),
            <<"a">>, Num(2))}

\* No call of removeInstances was made yet.
NotCalled == <<"not called">>

(***************************************************************************)
(* Initial state: the module has just been loaded.                         *)
(***************************************************************************)
Init ==
    /\ state = EmptyMapping
    /\ prefixes = <<>>
    /\ forks = {}
    /\ flashcore = EmptyMapping
    /\ tasks = <<>>
    /\ saves = <<>>
    /\ messageListeners = {}
    /\ errorListeners = {}
    /\ toBot = <<>>
    /\ fromBot = <<>>
    /\ argument = Undefined
    /\ returned = NotCalled

(***************************************************************************)
(* Operations on forks and on the table                                    *)
(***************************************************************************)
\* State.fork(prefix, options)
StaticFork(prefix, options) ==
    /\ prefixes' = SetAdd(prefixes, prefix)
    /\ forks' = forks \cup {State_fork(prefix, options)}
    /\ UNCHANGED <<state, flashVars, syncVars, callVars>>

\* this.fork(prefix, options)
InstanceFork(this, prefix, options) ==
    /\ this \in forks
    /\ forks' = forks \cup {fork(this, prefix, options)}
    /\ UNCHANGED <<state, prefixes, flashVars, syncVars, callVars>>

\* setState(key, value, {persist}) of the module
SetState(key, value, persist) ==
    /\ state' = setState_state(key, value)
    /\ tasks' = setState_tasks(key, value, persist)
    /\ UNCHANGED <<prefixes, forks, flashcore, syncVars, callVars>>

\* this.setState(key, value, options)
ForkSetState(this, key, value, options) ==
    /\ this \in forks
    /\ SetState(State_setState_key(this, key), value,
                State_setState_persist(this, options))

\* A clearState that leaves one entry behind when there are several.
clearState_state_skipsOne ==
    IF Cardinality(DOMAIN state) < 2 THEN EmptyMapping
    ELSE [k \in {CHOOSE k \in DOMAIN state : TRUE} |-> state[k]]

\* clearState()
clearState_state == EmptyMapping

ClearState ==
    /\ state' = clearState_state
    /\ UNCHANGED <<prefixes, forks, flashVars, syncVars, callVars>>

\* A loadState that replaces the table.
loadState_state_replace(savedState) == savedState

\* Object.keys(savedState).forEach((key) => { table[key] = savedState[key] })
loadState_forEach(table, savedState) ==
    [k \in DOMAIN table \cup DOMAIN savedState |->
        IF k \in DOMAIN savedState THEN savedState[k] ELSE table[k]]

\* loadState(savedState)
loadState_state(savedState) == loadState_forEach(state, savedState)

LoadState(savedState) ==
    /\ state' = loadState_state(savedState)
    /\ UNCHANGED <<prefixes, forks, flashVars, syncVars, callVars>>

(***************************************************************************)
(* persistState(): the un-awaited task a persistent setState starts        *)
(***************************************************************************)
\* (await Flashcore.get(FLASHCORE_KEYS.state)) ?? {} returns; the task sets
\* persistedState[key] = value and calls Flashcore.set, which is pending.
persistState_get(task) ==
    [task EXCEPT !.pc = "set",
                 !.persistedState = Assign(flashcore, task.key, task.value)]

Remove(seq, i) == SubSeq(seq, 1, i - 1) \o SubSeq(seq, i + 1, Len(seq))

TaskGet(i) ==
    /\ i \in 1..Len(tasks)
    /\ tasks[i].pc = "get"
    /\ tasks' = [tasks EXCEPT ![i] = persistState_get(tasks[i])]
    /\ UNCHANGED <<tableVars, flashcore, syncVars, callVars>>

\* Flashcore.set(FLASHCORE_KEYS.state, persistedState) lands in the backend.
persistState_set(task) == task.persistedState

TaskSet(i) ==
    /\ i \in 1..Len(tasks)
    /\ tasks[i].pc = "set"
    /\ flashcore' = persistState_set(tasks[i])
    /\ tasks' = Remove(tasks, i)
    /\ UNCHANGED <<tableVars, syncVars, callVars>>

(***************************************************************************)
(* getStateSave / saveState: the exchange with the bot process             *)
(***************************************************************************)
\* message.state: a mapping, or undefined
NoPayload == [defined |-> FALSE, mapping |-> EmptyMapping]
Payload(mapping) == [defined |-> TRUE, mapping |-> mapping]

Message(type, payload) == [type |-> type, state |-> payload]

\* isStateMessage(message)
isStateMessage(message) ==
    message.type = "state-load" \/ message.type = "state-save"

\* The promise getStateSave returns, and its resolve and reject: a promise
\* settles once.
Pending == [status |-> "pending", value |-> NoPayload, error |-> "none"]
Resolved(value) == [status |-> "resolved", value |-> value, error |-> "none"]
Rejected(error) == [status |-> "rejected", value |-> NoPayload, error |-> error]

resolve(promise, value) ==
    IF promise.status = "pending" THEN Resolved(value) ELSE promise

reject(promise, error) ==
    IF promise.status = "pending" THEN Rejected(error) ELSE promise

\* A getStateSave that does not test the handle.
getStateSave_promise_noNullCheck(botProcess) == Pending

\* getStateSave(botProcess): the promise as returned
getStateSave_promise(botProcess) ==
    IF botProcess = "null" THEN Resolved(Payload(EmptyMapping)) ELSE Pending

GetStateSave(botProcess) ==
    LET id == Len(saves) + 1
        promise == getStateSave_promise(botProcess)
    IN  /\ saves' = Append(saves, promise)
        /\ IF promise.status = "pending"
           THEN /\ messageListeners' = messageListeners \cup {id}
                /\ errorListeners' = errorListeners \cup {id}
                /\ toBot' = Append(toBot, Message("state-save", NoPayload))
           ELSE UNCHANGED <<messageListeners, errorListeners, toBot>>
        /\ UNCHANGED <<tableVars, flashVars, callVars, fromBot>>

\* messageListener(message) of save id: the promise and whether the listener
\* stays registered
messageListener_promise(id, message) ==
    IF isStateMessage(message) THEN resolve(saves[id], message.state)
    ELSE saves[id]

messageListener_stays(id, message) == ~isStateMessage(message)

\* The bot process's next message is emitted to the 'message' listeners.
Deliver ==
    /\ fromBot # <<>>
    /\ LET message == Head(fromBot)
       IN  /\ saves' = [id \in 1..Len(saves) |->
                          IF id \in messageListeners
                          THEN messageListener_promise(id, message)
                          ELSE saves[id]]
           /\ messageListeners' =
                 {id \in messageListeners : messageListener_stays(id, message)}
    /\ fromBot' = Tail(fromBot)
    /\ UNCHANGED <<tableVars, flashVars, callVars, errorListeners, toBot>>

\* An error handler that leaves the message listener registered.
onError_messageListeners_kept(ids) == messageListeners

\* The once('error') handlers of the saves ids:
\* botProcess.off('message', messageListener); reject(error)
onError_messageListeners(ids) == messageListeners \ ids

onError_saves(ids, error) ==
    [id \in 1..Len(saves) |->
        IF id \in ids THEN reject(saves[id], error) ELSE saves[id]]

\* The bot process emits 'error'.
ChannelError(error) ==
    /\ saves' = onError_saves(errorListeners, error)
    /\ messageListeners' = onError_messageListeners(errorListeners)
    /\ errorListeners' = {}
    /\ UNCHANGED <<tableVars, flashVars, callVars, toBot, fromBot>>

\* saveState(), in the bot process: process.send({type: 'state-save', state})
saveState_message == Message("state-save", Payload(state))

SaveState ==
    /\ fromBot' = Append(fromBot, saveState_message)
    /\ UNCHANGED <<tableVars, flashVars, callVars, saves, messageListeners,
                   errorListeners, toBot>>

\* The bot process sends another message of the RoboMessage union.
BotSend(message) ==
    /\ fromBot' = Append(fromBot, message)
    /\ UNCHANGED <<tableVars, flashVars, callVars, saves, messageListeners,
                   errorListeners, toBot>>

(***************************************************************************)
(* Guards that keep the model finite                                       *)
(***************************************************************************)
ForksWithin(limit) == Cardinality(forks') <= limit
KeysWithin(limit) == Cardinality(DOMAIN state') <= limit
TasksWithin(limit) == Len(tasks') <= limit
SavesWithin(limit) == Len(saves') <= limit
QueueWithin(limit) == Len(fromBot') <= limit

(***************************************************************************)
(* The store alone: forks that persist nothing, writes, clear and load.    *)
(***************************************************************************)
Next ==
    \/ \E p \in Strings, o \in NoPersist :
            StaticFork(p, o) /\ ForksWithin(MaxForks)
    \/ \E f \in forks, p \in Strings :
            InstanceFork(f, p, "undefined") /\ ForksWithin(MaxForks)
    \/ \E f \in forks, k \in Strings, v \in Values :
            ForkSetState(f, k, v, "undefined") /\ KeysWithin(MaxKeys)
    \/ ClearState
    \/ \E s \in Snapshots : LoadState(s) /\ KeysWithin(MaxKeys)

Spec == Init /\ [][Next]_vars

(***************************************************************************)
(* Fork creation alone, with room for one more instance.                   *)
(***************************************************************************)
ForkNext ==
    \/ \E p \in PathStrings :
            StaticFork(p, "undefined") /\ ForksWithin(MaxPathForks)
    \/ \E f \in forks, p \in PathStrings :
            InstanceFork(f, p, "undefined") /\ ForksWithin(MaxPathForks)

ForkSpec == Init /\ [][ForkNext]_vars

(***************************************************************************)
(* Persistence: forks with every default, writes with every explicit       *)
(* option, and the tasks' backend reads and writes in any order.           *)
(***************************************************************************)
PersistPrefixes == {<<"a">>}
PersistKeys == {<<"a">>, <<"_">>}
PersistValues == {Num(1), Arr(<<Instance, Num(1)>>)}

PersistNext ==
    \/ \E p \in PersistPrefixes, o \in PersistOptions :
            StaticFork(p, o) /\ ForksWithin(MaxForks)
    \/ \E f \in forks, p \in PersistPrefixes :
            InstanceFork(f, p, "undefined") /\ ForksWithin(MaxForks)
    \/ \E f \in forks, k \in PersistKeys, v \in PersistValues,
          o \in PersistOptions :
            /\ ForkSetState(f, k, v, o)
            /\ KeysWithin(MaxKeys)
            /\ TasksWithin(MaxTasks)
    \/ \E i \in 1..Len(tasks) : TaskGet(i)
    \/ \E i \in 1..Len(tasks) : TaskSet(i)

PersistSpec == Init /\ [][PersistNext]_vars

(***************************************************************************)
(* The persist option: root forks with every default, writes with every    *)
(* explicit option, and the tasks' backend reads and writes, with fewer    *)
(* forks, entries and tasks at once than the persistence specification.    *)
(***************************************************************************)
OptionNext ==
    \/ \E p \in PersistPrefixes, o \in PersistOptions :
            StaticFork(p, o) /\ ForksWithin(MaxOptionForks)
    \/ \E f \in forks, k \in PersistKeys, v \in PersistValues,
          o \in PersistOptions :
            /\ ForkSetState(f, k, v, o)
            /\ KeysWithin(MaxOptionKeys)
            /\ TasksWithin(MaxOptionTasks)
    \/ \E i \in 1..Len(tasks) : TaskGet(i)
    \/ \E i \in 1..Len(tasks) : TaskSet(i)

OptionSpec == Init /\ [][OptionNext]_vars

(***************************************************************************)
(* The exchange: the supervisor's saves, the bot process's table and       *)
(* messages, and the channel's faults.                                     *)
(***************************************************************************)
BotProcesses == {"null", "bot"}
SyncKeys == {<<"a">>}
Errors == {"EPIPE"}

\* Messages of the bot process other than saveState's: a type the saves do
\* not wait for, a state-load with a payload, a state-save without one.
BotMessages ==
    {Message("other", NoPayload),
     Message("state-load", Payload(Assign(EmptyMapping, <<"a">>, Num(2)))),
     Message("state-save", NoPayload)}

SyncNext ==
    \/ \E b \in BotProcesses : GetStateSave(b) /\ SavesWithin(MaxSaves)
    \/ Deliver
    \/ \E e \in Errors : ChannelError(e)
    \/ SaveState /\ QueueWithin(MaxQueue)
    \/ \E m \in BotMessages : BotSend(m) /\ QueueWithin(MaxQueue)
    \/ \E k \in SyncKeys, v \in PersistValues : SetState(k, v, "undefined")

SyncSpec == Init /\ [][SyncNext]_vars

(***************************************************************************)
(* The fork tree: root forks created again and again, forks nested under   *)
(* any fork, a write through any of them, and clear.                       *)
(***************************************************************************)
TreePrefixes == {<<"a">>, <<"_">>}
TreeKey == <<"a">>

TreeNext ==
    \/ \E p \in TreePrefixes, o \in NoPersist :
            StaticFork(p, o) /\ ForksWithin(MaxTreeForks)
    \/ \E f \in forks :
            InstanceFork(f, TreeKey, "undefined") /\ ForksWithin(MaxTreeForks)
    \/ \E f \in forks, v \in Values :
            ForkSetState(f, TreeKey, v, "undefined") /\ KeysWithin(MaxTreeKeys)
    \/ ClearState

TreeSpec == Init /\ [][TreeNext]_vars

(***************************************************************************)
(* The table and the durable snapshot: root forks of one prefix, writes    *)
(* with every explicit option, the tasks' backend reads and writes, clear  *)
(* and load.                                                               *)
(***************************************************************************)
DurableOptions == {"undefined", "true"}
DurableValues == {Num(1), Num(3)}

DurableNext ==
    \/ \E p \in PersistPrefixes, o \in DurableOptions : StaticFork(p, o)
    \/ \E f \in forks, k \in PersistKeys, v \in DurableValues,
          o \in PersistOptions :
            /\ ForkSetState(f, k, v, o)
            /\ KeysWithin(MaxDurableKeys)
            /\ TasksWithin(MaxDurableTasks)
    \/ \E i \in 1..Len(tasks) : TaskGet(i)
    \/ \E i \in 1..Len(tasks) : TaskSet(i)
    \/ ClearState
    \/ \E s \in Snapshots : LoadState(s) /\ KeysWithin(MaxDurableKeys)

DurableSpec == Init /\ [][DurableNext]_vars

(***************************************************************************)
(* Persistent writes alone: a fork that persists by default, its writes,   *)
(* and the tasks' backend reads and writes in any order.                   *)
(***************************************************************************)
ConvergeValues == {Num(1), Num(2)}

ConvergeNext ==
    \/ \E p \in PersistPrefixes : StaticFork(p, "true")
    \/ \E f \in forks, k \in PersistKeys, v \in ConvergeValues :
            ForkSetState(f, k, v, "undefined") /\ TasksWithin(MaxTasks)
    \/ \E i \in 1..Len(tasks) : TaskGet(i)
    \/ \E i \in 1..Len(tasks) : TaskSet(i)

ConvergeSpec == Init /\ [][ConvergeNext]_vars

(***************************************************************************)
(* removeInstances alone: a caller hands it a value tree, and it returns   *)
(* or throws.                                                              *)
(***************************************************************************)
\* The values that hold no other value.
Leaves == {Num(1), Str("s"), Bool(TRUE), Null, Func, Instance, NoConstructor}

\* The name of an object's i-th field.
FieldNames == <<"a", "b", "c", "d", "e">>

Named(forest) == [i \in 1..Len(forest) |-> <<FieldNames[i], forest[i]>>]

RECURSIVE TreesOfSize(_)
RECURSIVE Forests(_)

\* The sequences of trees that hold n values in all.
Forests(n) ==
    IF n = 0 THEN {<<>>}
    ELSE UNION {{<<t>> \o rest : t \in TreesOfSize(k), rest \in Forests(n - k)} :
                    k \in 1..n}

\* The trees that hold n values: a leaf, an array of trees, or an object
\* whose fields hold trees.
TreesOfSize(n) ==
    IF n = 1 THEN Leaves \cup {Arr(<<>>), Obj(<<>>)}
    ELSE {Arr(forest) : forest \in Forests(n - 1)}
            \cup {Obj(Named(forest)) : forest \in Forests(n - 1)}

\* The trees that hold at most limit values.
Trees(limit) == UNION {TreesOfSize(n) : n \in 1..limit}

SanitizeInit ==
    /\ state = EmptyMapping
    /\ prefixes = <<>>
    /\ forks = {}
    /\ flashcore = EmptyMapping
    /\ tasks = <<>>
    /\ saves = <<>>
    /\ messageListeners = {}
    /\ errorListeners = {}
    /\ toBot = <<>>
    /\ fromBot = <<>>
    /\ argument \in Trees(MaxNodes)
    /\ returned = NotCalled

\* removeInstances(argument) runs to its end.
CallRemoveInstances ==
    /\ returned = NotCalled
    /\ returned' = removeInstances(argument)
    /\ UNCHANGED <<tableVars, flashVars, syncVars, argument>>

SanitizeNext == CallRemoveInstances

SanitizeSpec == SanitizeInit /\ [][SanitizeNext]_vars

(***************************************************************************)
(* Properties                                                              *)
(***************************************************************************)

\* C1 (fork isolation): a setState(k, v) through a fork with prefix P1
\* leaves what getState(k) returns through every fork with another prefix
\* P2 unchanged, whatever happened before: no step that changes what a fork
\* g reads for k is a setState(k, v) through a fork with another prefix.
C1_ForkIsolation ==
    [][\A g \in forks, k \in Strings :
          State_getState(g, k)' # State_getState(g, k)
              => \A f \in forks, v \in Values :
                    f.prefix # g.prefix
                        => ~ForkSetState(f, k, v, "undefined")]_vars

\* C1 witness: two forks with different prefixes, a key written through one
\* of them and still absent through the other.
C1_Witness ==
    \E f \in forks, g \in forks, k \in Strings :
        /\ f.prefix # g.prefix
        /\ State_getState(f, k) \in Values
        /\ State_getState(g, k) = Undefined

\* A fork f was created by nesting under a fork with g's prefix: f's prefix
\* is g's prefix, the separator and further local prefixes.
NestedUnder(f, g) ==
    /\ Len(f.prefix) >= Len(g.prefix) + Len(Separator)
    /\ SubSeq(f.prefix, 1, Len(g.prefix) + Len(Separator))
           = g.prefix \o Separator
    /\ Len(f.path) > 1

\* C2 as stated: right after a setState(k, v) through a fork that shares
\* prefix P or was created by nesting under P, getState(k) through every
\* fork with prefix P returns v.
C2_AsStated ==
    [][\A f \in forks, k \in Strings, v \in Values :
          ForkSetState(f, k, v, "undefined")
              => \A g \in forks :
                    (f.prefix = g.prefix \/ NestedUnder(f, g))
                        => State_getState(g, k)' = v]_vars

\* What the forks read changes only by a write of the entry read: a
\* setState through a fork whose prefix and key compose to that entry, a
\* loadState holding it, or clearState.
ReadsChangeOnlyByWrites ==
    \A g \in forks, k \in Strings :
        State_getState(g, k)' # State_getState(g, k)
            => \/ \E f \in forks, j \in Strings, v \in Values :
                     /\ State_setState_key(f, j) = State_setState_key(g, k)
                     /\ ForkSetState(f, j, v, "undefined")
               \/ \E s \in Snapshots :
                     /\ State_setState_key(g, k) \in DOMAIN s
                     /\ LoadState(s)
               \/ ClearState

\* C2 amended (shared-prefix visibility): right after a setState(k, v)
\* through a fork with prefix P, getState(k) through every fork whose prefix
\* is P returns v, however many such forks there are; and what a fork reads
\* for k changes only when the table entry P__k is written again (a setState through a fork whose prefix and key
\* compose to that entry, a loadState holding it) or the table is cleared.
\* A write of k through a child fork created under P is a write of another
\* entry.
C2_SharedPrefixVisibility ==
    [][/\ \A f \in forks, k \in Strings, v \in Values :
             ForkSetState(f, k, v, "undefined")
                 => \A g \in forks :
                       f.prefix = g.prefix => State_getState(g, k)' = v
       /\ ReadsChangeOnlyByWrites]_vars

\* C2 witness: two distinct instances share a prefix, and both read a value
\* that was set through one of them.
C2_Witness ==
    \E f \in forks, g \in forks, k \in Strings :
        /\ f # g
        /\ f.prefix = g.prefix
        /\ State_getState(f, k) \in Values
        /\ State_getState(g, k) = State_getState(f, k)

\* C8 (prefix composition is injective): two forks reached by distinct
\* prefix paths have distinct prefixes, and so never resolve a local key to
\* the same table entry.
C8_InjectiveComposition ==
    \A f \in forks, g \in forks :
        f.path # g.path
            => /\ f.prefix # g.prefix
               /\ \A k \in PathStrings :
                     State_setState_key(f, k) # State_setState_key(g, k)

\* C3 (persisted snapshot accumulation): when a persistence task's write
\* lands, the durable snapshot holds the task's key with its value and every
\* key it held before: a key once in the snapshot is never absent later,
\* under every interleaving of the tasks' backend reads and writes.
C3_SnapshotAccumulates ==
    [][/\ \A k \in DOMAIN flashcore : k \in DOMAIN flashcore'
       /\ \A i \in 1..Len(tasks) :
             TaskSet(i) => Lookup(flashcore', tasks[i].key) = tasks[i].value]_vars

\* A value that went through the sanitizer: removeInstances leaves it as it
\* is.
IsSanitized(value) == removeInstances(value) = value

\* C4 (sanitize before persistence and transfer): every value handed to the
\* durable backend and every value of a table sent by saveState has passed
\* through removeInstances, so none holds a function or a class instance.
C4_SanitizedBeforePersistAndTransfer ==
    /\ \A k \in DOMAIN flashcore : IsSanitized(flashcore[k])
    /\ \A i \in 1..Len(fromBot) :
          \A k \in DOMAIN fromBot[i].state.mapping :
              IsSanitized(fromBot[i].state.mapping[k])

\* C5 (save resolution): when a message of the bot process is delivered, a
\* pending save is resolved, with the message's payload, only if the message
\* is a state-save that bears a state payload; any other message leaves the
\* save pending and its listener registered.
C5_SaveResolution ==
    [][Deliver =>
          \A id \in messageListeners :
              saves[id].status = "pending" =>
                  IF Head(fromBot).type = "state-save"
                         /\ Head(fromBot).state.defined
                  THEN saves'[id] = Resolved(Head(fromBot).state)
                  ELSE saves'[id] = saves[id] /\ id \in messageListeners']_vars

\* C6 (save fault): a fault of the channel rejects every pending save with
\* that fault and unregisters its message listener; a rejected save has no
\* message listener and keeps its outcome whatever is delivered afterwards.
C6_SaveFault ==
    [][/\ \A e \in Errors :
             ChannelError(e) =>
                 \A id \in 1..Len(saves) :
                     saves[id].status = "pending" =>
                         /\ saves'[id] = Rejected(e)
                         /\ id \notin messageListeners'
       /\ \A id \in 1..Len(saves) :
             saves[id].status = "rejected" =>
                 /\ id \notin messageListeners
                 /\ saves'[id] = saves[id]
                 /\ id \notin messageListeners']_vars

\* C6 witness: a save was rejected, and a message that bears a state is
\* waiting to be delivered.
C6_Witness ==
    /\ \E id \in 1..Len(saves) : saves[id].status = "rejected"
    /\ fromBot # <<>>
    /\ isStateMessage(Head(fromBot))
    /\ Head(fromBot).state.defined

\* C7 (save when no worker): getStateSave(null) returns a promise already
\* resolved with the empty mapping, sends nothing and registers no listener.
C7_SaveWhenNoWorker ==
    [][GetStateSave("null") =>
          /\ saves'[Len(saves')] = Resolved(Payload(EmptyMapping))
          /\ toBot' = toBot
          /\ messageListeners' = messageListeners
          /\ errorListeners' = errorListeners]_vars

\* C7 witness: saves were asked for with a null handle only; they are
\* resolved and nothing was sent.
C7_Witness ==
    /\ Len(saves) > 0
    /\ toBot = <<>>
    /\ \A id \in 1..Len(saves) : saves[id] = Resolved(Payload(EmptyMapping))

\* The persist flag the claim gives: the call's own value when given, else
\* the fork's default, else false.
EffectivePersist(explicit, default) ==
    IF explicit # "undefined" THEN explicit = "true"
    ELSE IF default # "undefined" THEN default = "true"
    ELSE FALSE

\* C9 (effective persist flag): a fork's setState starts a persistence task
\* for the entry it writes exactly when the call's persist value, else the
\* fork's default, else false, is true; the tasks grow by no other step, and
\* the durable snapshot changes only when a task's write lands.
C9_EffectivePersistFlag ==
    [][/\ \A f \in forks, k \in PersistKeys, v \in PersistValues,
             o \in PersistOptions :
             ForkSetState(f, k, v, o) =>
                 /\ flashcore' = flashcore
                 /\ IF EffectivePersist(o, f.options)
                    THEN tasks' = Append(tasks,
                                    NewTask(f.prefix \o Separator \o k, v))
                    ELSE tasks' = tasks
       /\ Len(tasks') > Len(tasks) =>
             \E f \in forks, k \in PersistKeys, v \in PersistValues,
                o \in PersistOptions :
                 EffectivePersist(o, f.options) /\ ForkSetState(f, k, v, o)
       /\ flashcore' # flashcore => \E i \in 1..Len(tasks) : TaskSet(i)]_vars

\* C9 witness: the only fork ever made persists by default, an entry was
\* written through it, and no task was started for it: the write gave an
\* explicit persist: false.
C9_Witness ==
    \E f \in forks :
        /\ forks = {f}
        /\ f.options = "true"
        /\ \E k \in PersistKeys : State_getState(f, k) \in PersistValues
        /\ tasks = <<>>
        /\ flashcore = EmptyMapping

\* C10 (persistence default inheritance): a child made by fork(localPrefix)
\* without options has its parent's default persist option, so a setState
\* without a persist value through a child of a fork made with persist: true
\* starts a persistence task.
C10_ChildInheritsPersist ==
    [][\A f \in forks, p \in PersistPrefixes :
          /\ InstanceFork(f, p, "undefined") =>
                Truthy(State_setState_persist(fork(f, p, "undefined"),
                                              "undefined"))
                    = Truthy(State_setState_persist(f, "undefined"))
          /\ (f.options = "true" /\ fork(f, p, "undefined") \in forks) =>
                \A k \in PersistKeys, v \in PersistValues :
                    ForkSetState(fork(f, p, "undefined"), k, v, "undefined")
                        => Len(tasks') = Len(tasks) + 1]_vars

\* x is listed in seq.
Listed(seq, x) == \E i \in 1..Len(seq) : seq[i] = x

\* C11 (registry completeness): the registry holds the prefix of every fork
\* ever created, the composed prefix of a fork made by fork(localPrefix)
\* included, so State.listForks() lists it.
C11_RegistryComplete ==
    \A f \in forks : Listed(State_listForks, f.prefix)

\* C12 (registry listing): State.fork(prefix) leaves the listing as it is
\* when it lists the prefix already and appends the prefix otherwise; no
\* step, clearState included, removes or moves a listed prefix; the listing
\* never holds a prefix twice and holds the prefix of every root fork. So
\* State.listForks() returns the prefixes given to State.fork in order of
\* first creation, each once.
C12_RegistryListing ==
    [][/\ \A p \in TreePrefixes, o \in NoPersist :
             StaticFork(p, o) =>
                 State_listForks' =
                     IF Listed(State_listForks, p) THEN State_listForks
                     ELSE Append(State_listForks, p)
       /\ Len(State_listForks') >= Len(State_listForks)
       /\ SubSeq(State_listForks', 1, Len(State_listForks)) = State_listForks
       /\ \A i, j \in 1..Len(State_listForks') :
             State_listForks'[i] = State_listForks'[j] => i = j
       /\ \A f \in forks' :
             Len(f.path) = 1 => Listed(State_listForks', f.prefix)]_vars

\* C12 witness: a prefix was given to State.fork twice (two instances hold
\* it), another prefix once, after it; the listing holds the first, then the
\* second, each once.
C12_Witness ==
    \E f \in forks, g \in forks, h \in forks :
        /\ f # g
        /\ f.prefix = g.prefix
        /\ h.prefix # f.prefix
        /\ Len(f.path) = 1 /\ Len(g.path) = 1 /\ Len(h.path) = 1
        /\ State_listForks = <<f.prefix, h.prefix>>

\* The key composed by hand for a chain of local prefixes p1, ..., pn and a
\* local key k: p1, "__", p2, "__", ..., pn, "__", k.
RECURSIVE ComposedKey(_, _)
ComposedKey(path, k) ==
    IF path = <<>> THEN k
    ELSE Head(path) \o <<"_", "_">> \o ComposedKey(Tail(path), k)

\* C13 (nested key round-trip): right after a setState(k, v) through a fork
\* reached by the chain of local prefixes p1, ..., pn, the table's getState
\* of the key composed by hand returns v, and so does the fork's
\* getState(k).
C13_NestedKeyRoundTrip ==
    [][\A f \in forks, v \in Values :
          ForkSetState(f, TreeKey, v, "undefined") =>
              /\ getState(ComposedKey(f.path, TreeKey))' = v
              /\ State_getState(f, TreeKey)' = v]_vars

\* C13 witness: a fork nested two levels under a root fork, and the value
\* written through it read back under the key composed by hand.
C13_Witness ==
    \E f \in forks :
        /\ Len(f.path) = 3
        /\ getState(ComposedKey(f.path, TreeKey)) \in Values
        /\ State_getState(f, TreeKey) = getState(ComposedKey(f.path, TreeKey))
        /\ DOMAIN state = {ComposedKey(f.path, TreeKey)}

\* C14 (clear): right after clearState(), getState returns absent for every
\* key the table held, through the table and through every fork, and the
\* durable snapshot and the tasks in flight are as before.
C14_Clear ==
    [][ClearState =>
          /\ \A key \in DOMAIN state : getState(key)' = Undefined
          /\ \A f \in forks, k \in PersistKeys :
                State_getState(f, k)' = Undefined
          /\ flashcore' = flashcore
          /\ tasks' = tasks]_vars

\* C14 witness: the table was cleared after a persistent write landed: the
\* table is empty and the durable snapshot is not.
C14_Witness ==
    /\ forks # {}
    /\ state = EmptyMapping
    /\ flashcore # EmptyMapping

\* C15 (bulk load merge): loadState(mapping) can be called in every state;
\* right after it every key of the mapping holds the mapping's value, every
\* other key of the table holds the value it had, no other key is present,
\* and the durable snapshot and the tasks in flight are as before.
C15_BulkLoadMerge ==
    [][\A s \in Snapshots :
          /\ ENABLED LoadState(s)
          /\ LoadState(s) =>
                /\ \A k \in DOMAIN s : getState(k)' = s[k]
                /\ \A k \in DOMAIN state \ DOMAIN s :
                      getState(k)' = state[k]
                /\ DOMAIN state' = DOMAIN state \cup DOMAIN s
                /\ flashcore' = flashcore
                /\ tasks' = tasks]_vars

\* C15 witness: the table holds a loaded entry next to an entry written by
\* setState, and the durable snapshot holds a persisted entry.
C15_Witness ==
    /\ getState(<<"a", "_", "_", "a">>) = Num(2)
    /\ \E k \in DOMAIN state : state[k] \in DurableValues
    /\ flashcore # EmptyMapping

\* C20 (durable convergence): when every write was persistent and no
\* persistence task is in flight any more, the durable snapshot holds, for
\* every key written, the table's value for that key, which is the value of
\* the last setState for it.
C20_DurableConvergence ==
    tasks = <<>> =>
        \A k \in DOMAIN state : Lookup(flashcore, k) = state[k]

\* A tree that holds an object without a constructor.
RECURSIVE HoldsNoConstructor(_)
HoldsNoConstructor(value) ==
    CASE Kind(value) = "bare" -> TRUE
      [] Kind(value) = "array" ->
            \E i \in 1..Len(value[2]) : HoldsNoConstructor(value[2][i])
      [] Kind(value) = "object" ->
            \E i \in 1..Len(value[2]) : HoldsNoConstructor(value[2][i][2])
      [] OTHER -> FALSE

\* The result the claim gives: absent for a function and for an opaque
\* instance, the value itself for a primitive, the sanitized elements of a
\* sequence in order without the absent ones, the sanitized fields of a
\* plain structure in order without the absent ones.
RECURSIVE SanitizerResult(_)
SanitizerResult(value) ==
    CASE Kind(value) \in {"function", "instance"} -> Undefined
      [] Kind(value) = "array" ->
            Arr(SelectSeq([i \in 1..Len(value[2]) |->
                              SanitizerResult(value[2][i])],
                          LAMBDA item : Kind(item) # "undefined"))
      [] Kind(value) = "object" ->
            Obj(SelectSeq([i \in 1..Len(value[2]) |->
                              <<value[2][i][1],
                                SanitizerResult(value[2][i][2])>>],
                          LAMBDA field : Kind(field[2]) # "undefined"))
      [] OTHER -> value

C17_SanitizerNeverThrows ==
    Kind(returned) # "not called"
        => /\ Kind(returned) # "TypeError"
           /\ Kind(argument) \in {"instance", "bare"} => returned = Undefined

\* The messages in flight that saveState sent: a state-save that bears a
\* table.
SaveStateMessages ==
    {j \in 1..Len(fromBot) :
        fromBot[j].type = "state-save" /\ fromBot[j].state.defined}

\* C18 (snapshot transfer round-trip): saveState can be called in every
\* state, sends a state-save message that bears the table T and waits for
\* nothing; with such a message in flight, a pending save that a delivery
\* resolves is resolved with a mapping equal to T; and loadState of that
\* mapping into an empty table gives a table equal to T.
C18_SnapshotRoundTrip ==
    [][/\ ENABLED SaveState
       /\ SaveState =>
             /\ fromBot' = Append(fromBot, Message("state-save", Payload(state)))
             /\ saves' = saves
       /\ Deliver =>
             \A id \in messageListeners :
                 (/\ saves[id].status = "pending"
                  /\ SaveStateMessages # {}
                  /\ saves'[id].status = "resolved") =>
                     LET first == CHOOSE j \in SaveStateMessages :
                                     \A i \in SaveStateMessages : j <= i
                         T == fromBot[first].state
                     IN  /\ saves'[id].value = T
                         /\ loadState_forEach(EmptyMapping,
                                              saves'[id].value.mapping)
                                = T.mapping]_vars

\* C19 (listener cleanup): a save that has settled, resolved or rejected,
\* has neither its message listener nor its error listener registered on
\* the bot process.
C19_ListenerCleanup ==
    \A id \in 1..Len(saves) :
        saves[id].status # "pending" =>
            /\ id \notin messageListeners
            /\ id \notin errorListeners

====
